---- MODULE Spec2Model ----
(***************************************************************************)
(* Model of the same-host breadth-first image crawler of app.py            *)
(* (crawl_site) and backend.py (scan_site), followed by the size probe of  *)
(* app.py (fetch_sizes_async).                                             *)
(*                                                                         *)
(* Granularity: the crawl runs on one asyncio event loop, so the code      *)
(* between two awaits is one step.  The stop flag lives outside the loop   *)
(* and may be set between any two steps.                                   *)
(***************************************************************************)
EXTENDS Integers, Sequences, FiniteSets, TLC

\* ------------------------------------------------------------------ bounds
MaxPagesBound == 4      \* max_pages ranges over 1..MaxPagesBound
MaxConcurrency == 2     \* concurrency ranges over 1..MaxConcurrency

\* -------------------------------------------------------------------- URLs
\* A URL is its urlparse() split: authority, path, query, fragment.
Url(h, p, q, f) == [host |-> h, path |-> p, query |-> q, frag |-> f]

\* A reference as written in an href/src attribute.
\*   abs  : absolute URL                 http://x/a
\*   path : absolute-path reference      /a?q#f
\*   bad  : unparseable                  http://[bad
Ref(k, h, p, q, f) == [kind |-> k, host |-> h, path |-> p, query |-> q, frag |-> f]

BadRef == Ref("bad", "", "", "", "")

Impls == {"app", "backend"}

\* urljoin raises ValueError on an unparseable reference
JoinRaises(r) == r.kind = "bad"

abs_url(base, r) ==
    CASE r.kind = "abs"  -> Url(r.host, r.path, r.query, r.frag)
      [] r.kind = "path" -> Url(base.host, r.path, r.query, r.frag)
      [] OTHER           -> base

\* app.py strips query and fragment, backend.py strips the fragment only
normalize_url(im, u) ==
    IF im = "app" THEN [u EXCEPT !.query = "", !.frag = ""]
                  ELSE [u EXCEPT !.frag = ""]

netloc(u) == u.host

same_host_any(u, base_host) == TRUE
same_host(u, base_host) == netloc(u) = base_host

\* extension of the path, lower-cased ("" when there is none)
ExtOf(path) ==
    CASE path = "/p.jpg"    -> "jpg"
      [] path = "/d/p.jpg"  -> "jpg"
      [] path = "/banner.PNG" -> "png"
      [] path = "/logo.png" -> "png"
      [] OTHER              -> ""

VALID_IMAGE_EXTS == {"jpg", "jpeg", "png", "gif", "webp", "svg"}
EXCLUDE_KEYWORDS == {"logo", "icon", "favicon"}

is_image_url(u) == ExtOf(u.path) \in VALID_IMAGE_EXTS

\* kw is a substring of the lower-cased URL
UrlContains(u, kw) ==
    \/ kw = "logo"   /\ u.path = "/logo.png"
    \/ kw = "banner" /\ u.path = "/banner.PNG"

\* kw is a substring of the lower-cased alt/title text
TextContains(text, kw) == text # "" /\ text = kw

\* the keyword lists a caller may pass (lower-cased by the caller)
KeywordLists == {{}, {"banner"}}

keyword_match_url(kws, u) == kws = {} \/ \E k \in kws : UrlContains(u, k)
keyword_match_text(kws, t) == kws = {} \/ \E k \in kws : TextContains(t, k)

is_excluded(u) == \E kw \in EXCLUDE_KEYWORDS : UrlContains(u, kw)

\* ------------------------------------------------------------ page markup
\* What a server may put in a page: the <a href> references, the elements
\* that carry an image reference (tag, reference, and the alt/title text the
\* keyword filter may look at) and one <img srcset> attribute, given as the
\* list of its comma separated candidates (EmptyCand for an empty one).
Path(p, q, f) == Ref("path", "", p, q, f)
EmptyCand == Ref("empty", "", "", "", "")

Img(tag, r, alt) == [tag |-> tag, ref |-> r, alt |-> alt]

Html(hs, ss, sset) == [hrefs |-> hs, srcs |-> ss, srcset |-> sset]
EmptyHtml == Html({}, {}, <<>>)

\* The pages a server of the site may answer with.  Which page answers
\* which URL is left open, so every site made of these pages is covered.
Pages ==
    { EmptyHtml,
      \* two same-host links (one with a fragment) and a same-host image
      Html({Path("/a", "", ""), Path("/b", "", "f")},
           {Img("img", Path("/p.jpg", "", ""), "")}, <<>>),
      \* a link with a query, and an image served by another host
      Html({Path("/b", "", ""), Path("/c", "q", "")},
           {Img("img", Ref("abs", "x", "/p.jpg", "", ""), "banner")}, <<>>),
      \* a link to the site root, a link to another host, a <meta content>
      \* image with a query and an upper-case extension
      Html({Path("/", "", ""), Ref("abs", "x", "/a", "", "")},
           {Img("meta", Path("/banner.PNG", "q", ""), "")}, <<>>),
      \* an excluded image, and a srcset with a trailing comma
      Html({}, {Img("img", Path("/logo.png", "", ""), "banner")},
           <<Path("/d/p.jpg", "", ""), EmptyCand>>),
      \* an href that is not a URL
      Html({Path("/a", "", ""), BadRef}, {}, <<>>) }

\* ---------------------------------------------------------------- network
\* How a GET can end: a response with a Content-Type, or an exception.
FetchOutcomes == {"text/html", "application/xhtml+xml", "image/png", "timeout"}

\* the body handed to the extractor
fetch_text_any(im, outcome, html) == html
fetch_text(im, outcome, html) ==
    CASE outcome = "timeout"               -> EmptyHtml
      [] outcome = "text/html"             -> html
      [] outcome = "application/xhtml+xml" -> IF im = "backend" THEN html ELSE EmptyHtml
      [] OTHER                             -> EmptyHtml

\* -------------------------------------------------------------- extractor
Range(s) == {s[i] : i \in DOMAIN s}

\* part.strip().split()[0] on an empty candidate raises IndexError in app.py;
\* backend.py skips it
SrcsetRaises(im, sset) == im = "app" /\ EmptyCand \in Range(sset)

\* the acceptance test on a resolved, normalised candidate; backend.py
\* tests the extension only
ImageAccepted(im, kws, full, text) ==
    /\ is_image_url(full)
    /\ im = "app" => /\ ~is_excluded(full)
                     /\ keyword_match_url(kws, full) \/ keyword_match_text(kws, text)

\* app.py scans img, inline style, style block, meta, link and video
\* elements, backend.py img elements only
Scanned(im, c) == im = "app" \/ c.tag = "img"

\* the text the keyword filter is matched against besides the URL
MatchText(c) == IF c.tag \in {"img", "style", "video"} THEN c.alt ELSE ""

extract_images_from_html(im, base, html, kws) ==
    { normalize_url(im, abs_url(base, c.ref)) :
        c \in {d \in html.srcs :
                 /\ Scanned(im, d)
                 /\ ImageAccepted(im, kws, normalize_url(im, abs_url(base, d.ref)),
                                  MatchText(d))} }
    \cup
    { normalize_url(im, abs_url(base, r)) :
        r \in {d \in Range(html.srcset) :
                 /\ d # EmptyCand
                 /\ ImageAccepted(im, kws, normalize_url(im, abs_url(base, d)), "")} }

extract_links(im, base, html) ==
    { normalize_url(im, abs_url(base, r)) : r \in html.hrefs }

ExtractRaises(im, html) ==
    \/ SrcsetRaises(im, html.srcset)
    \/ \E r \in html.hrefs : JoinRaises(r)
    \/ \E c \in html.srcs : Scanned(im, c) /\ JoinRaises(c.ref)

\* ------------------------------------------------------------------ state
VARIABLES
    impl,          \* which crawler runs: crawl_site (app) or scan_site (backend)
    base_url,      \* the starting URL as supplied by the caller
    max_pages,
    concurrency,
    keywords,
    stop_flag,     \* st.session_state["stop_flag"]
    pc,            \* idle, loop, gather, done, raised, probe, end, shown
    seen,          \* seen / seen_pages
    to_visit,      \* the frontier, a list
    found_images,
    sem,           \* free permits of the crawl's semaphore
    batch,         \* URLs of the batch being gathered
    task,          \* per batch entry: pending, fetching, stopped, done, raised
    fetched,       \* per batch entry: how its request ended ("" before)
    results,       \* per batch entry: what visit() returned
    progress,      \* progress_state
    ret,           \* what the crawl returned: images (a list) and pages
    stop_seen,     \* history: len(seen) when the stop flag was set, -1 before
    prior_stop,    \* history: the stop flag as the run before this one left it
    purls,         \* fetch_sizes_async: the urls argument
    psem,          \* fetch_sizes_async: free permits
    ptask,         \* per url: waiting, probing, done
    sizes,         \* per url: the worker's value, in 1/100 KB
    presp,         \* per url: how its HEAD request ended (NoResp before)
    filt,          \* the size filter widgets read by the reducer
    table          \* the reducer's rows (df)

crawlVars == <<seen, to_visit, found_images, sem, batch, task, fetched, results>>
inputVars == <<impl, base_url, max_pages, concurrency, keywords, prior_stop>>
probeVars == <<purls, psem, ptask, sizes, presp>>
tableVars == <<filt, table>>
vars == <<inputVars, stop_flag, pc, crawlVars, progress, ret, stop_seen, probeVars,
          tableVars>>

Min(a, b) == IF a < b THEN a ELSE b

\* the orders in which list(a_set) may enumerate a set
Orders(S) == {s \in [1..Cardinality(S) -> S] : \A i, j \in DOMAIN s : s[i] = s[j] => i = j}

BaseUrls == { Url("h", "/", "", ""), Url("h", "/", "q", "f") }

\* Apply Size Filter, Min KB, Max KB (0 = no max), in 1/100 KB
Filter(ap, mn, mx) == [apply |-> ap, min |-> mn, max |-> mx]
NoFilter == Filter(FALSE, 0, 0)

NoResult == [imgs |-> {}, links |-> {}]
NoRet == [images |-> {}, pages |-> -1]
Progress0 == [pages_visited |-> 0, images_found |-> 0]

Init ==
    /\ impl \in Impls
    /\ base_url \in BaseUrls
    /\ max_pages \in 1..MaxPagesBound
    /\ concurrency \in 1..MaxConcurrency
    /\ keywords \in KeywordLists
    /\ impl = "backend" => keywords = {}
    /\ prior_stop \in BOOLEAN
    /\ stop_flag = prior_stop
    /\ pc = "idle"
    /\ seen = {} /\ to_visit = <<>> /\ found_images = {}
    /\ sem = 0 /\ batch = <<>> /\ task = <<>> /\ fetched = <<>> /\ results = <<>>
    /\ progress = Progress0
    /\ ret = NoRet
    /\ stop_seen = -1
    /\ purls = <<>> /\ psem = 0 /\ ptask = <<>> /\ sizes = <<>> /\ presp = <<>>
    /\ filt = NoFilter /\ table = <<>>

\* st.session_state["stop_flag"] = False, in app.py only
FlagAtStartKept(im, flag) == flag
FlagAtStart(im, flag) == IF im = "app" THEN FALSE ELSE flag

\* ---------------------------------------------------------------- crawler
\* Start Scan (app.py) clears the flag and runs crawl_site; scan_site
\* (backend.py) is entered with the flag as it stands.
Start ==
    /\ pc = "idle"
    /\ stop_flag' = FlagAtStart(impl, stop_flag)
    /\ seen' = {}
    /\ to_visit' = <<base_url>>
    /\ found_images' = {}
    /\ sem' = concurrency
    /\ progress' = Progress0
    /\ pc' = "loop"
    /\ UNCHANGED <<inputVars, batch, task, fetched, results, ret, stop_seen, probeVars, tableVars>>

base_host == netloc(base_url)

\* range(min(concurrency, len(to_visit), max_pages - len(seen)))
DrawCountNoBudget(conc, tv, sn, mp) == Min(conc, Len(tv))
DrawCount(conc, tv, sn, mp) == Min(conc, Min(Len(tv), mp - Cardinality(sn)))

\* a popped URL is kept unless `u in seen or not same_host(u, base_url)`
KeptAnySameHost(u, sn, bh) == same_host(u, bh)
Kept(u, sn, bh) == u \notin sn /\ same_host(u, bh)

\* the body of the draw loop, n times
RECURSIVE Draw(_, _, _, _, _)
Draw(n, tv, sn, b, bh) ==
    IF n = 0 \/ tv = <<>>
    THEN [to_visit |-> tv, seen |-> sn, batch |-> b]
    ELSE LET u == Head(tv) IN
         IF Kept(u, sn, bh)
         THEN Draw(n - 1, Tail(tv), sn \cup {u}, Append(b, u), bh)
         ELSE Draw(n - 1, Tail(tv), sn, b, bh)

LoopCond == to_visit # <<>> /\ Cardinality(seen) < max_pages

Drawn == Draw(DrawCount(concurrency, to_visit, seen, max_pages),
              to_visit, seen, <<>>, base_host)

Returned(imgs, sn) == [images |-> imgs, pages |-> Cardinality(sn)]

\* the while condition fails
ExitLoop ==
    /\ pc = "loop"
    /\ ~LoopCond
    /\ ret' = Returned(found_images, seen)
    /\ pc' = "done"
    /\ UNCHANGED <<inputVars, stop_flag, crawlVars, progress, stop_seen, probeVars, tableVars>>

\* if stop_flag: break
ExitStop ==
    /\ pc = "loop"
    /\ LoopCond
    /\ stop_flag
    /\ ret' = Returned(found_images, seen)
    /\ pc' = "done"
    /\ UNCHANGED <<inputVars, stop_flag, crawlVars, progress, stop_seen, probeVars, tableVars>>

\* if not batch: break  (the entries popped by the draw stay popped)
ExitEmptyBatch ==
    /\ pc = "loop"
    /\ LoopCond
    /\ ~stop_flag
    /\ Drawn.batch = <<>>
    /\ to_visit' = Drawn.to_visit
    /\ seen' = Drawn.seen
    /\ ret' = Returned(found_images, Drawn.seen)
    /\ pc' = "done"
    /\ UNCHANGED <<inputVars, stop_flag, found_images, sem, batch, task, fetched,
                   results, progress, stop_seen, probeVars, tableVars>>

\* draw a batch, mark it seen, create one visit task per URL, await gather
Dispatch ==
    /\ pc = "loop"
    /\ LoopCond
    /\ ~stop_flag
    /\ Drawn.batch # <<>>
    /\ to_visit' = Drawn.to_visit
    /\ seen' = Drawn.seen
    /\ batch' = Drawn.batch
    /\ task' = [i \in DOMAIN Drawn.batch |-> "pending"]
    /\ fetched' = [i \in DOMAIN Drawn.batch |-> ""]
    /\ results' = [i \in DOMAIN Drawn.batch |-> NoResult]
    /\ pc' = "gather"
    /\ UNCHANGED <<inputVars, stop_flag, found_images, sem, progress, ret,
                   stop_seen, probeVars, tableVars>>

\* async with sem
SemFreeAlways(s) == TRUE
SemFree(s) == s > 0

\* if stop_flag: return [], []
StopObservedNever(flag) == FALSE
StopObserved(flag) == flag

\* visit(url) up to its first await: take a permit, check the flag, issue
\* the request
VisitStart(i) ==
    /\ pc = "gather"
    /\ i \in DOMAIN task
    /\ task[i] = "pending"
    /\ SemFree(sem)
    /\ IF StopObserved(stop_flag)
       THEN /\ task' = [task EXCEPT ![i] = "stopped"]
            /\ sem' = sem
       ELSE /\ task' = [task EXCEPT ![i] = "fetching"]
            /\ sem' = sem - 1
    /\ UNCHANGED <<inputVars, stop_flag, pc, seen, to_visit, found_images, batch,
                   fetched, results, progress, ret, stop_seen, probeVars, tableVars>>

\* what visit returns for a body
VisitResult(im, url, body, kws) ==
    [imgs  |-> extract_images_from_html(im, url, body, kws),
     links |-> extract_links(im, url, body)]

\* the request resolves and the page is extracted, or extraction raises and
\* the exception leaves gather and the crawl
VisitDone(i) ==
    /\ pc = "gather"
    /\ i \in DOMAIN task
    /\ task[i] = "fetching"
    /\ \E outcome \in FetchOutcomes, html \in Pages :
         LET body == fetch_text(impl, outcome, html) IN
         /\ outcome = "timeout" => html = EmptyHtml
         /\ fetched' = [fetched EXCEPT ![i] = outcome]
         /\ IF ExtractRaises(impl, body)
            THEN /\ pc' = "raised"
                 /\ task' = [task EXCEPT ![i] = "raised"]
                 /\ UNCHANGED results
            ELSE /\ pc' = pc
                 /\ task' = [task EXCEPT ![i] = "done"]
                 /\ results' = [results EXCEPT ![i] = VisitResult(impl, batch[i], body, keywords)]
    /\ sem' = sem + 1
    /\ UNCHANGED <<inputVars, stop_flag, seen, to_visit, found_images, batch,
                   progress, ret, stop_seen, probeVars, tableVars>>

\* found_images.update(imgs) for every result
MergeImagesNone(found, res) == found
MergeImages(found, res) == found \cup UNION {res[i].imgs : i \in DOMAIN res}

\* the links of one result that pass the enqueue test
EnqueuedAnyHost(links, sn, bh, mp) ==
    {l \in links : l \notin sn /\ Cardinality(sn) < mp}
Enqueued(links, sn, bh, mp) ==
    {l \in links : l \notin sn /\ same_host(l, bh) /\ Cardinality(sn) < mp}

\* the lists the merge may append to the frontier: the results in batch
\* order, the links of one result in any order
RECURSIVE Appended(_, _, _, _, _)
Appended(res, k, sn, bh, mp) ==
    IF k > Len(res) THEN {<<>>}
    ELSE {h \o t : h \in Orders(Enqueued(res[k].links, sn, bh, mp)),
                   t \in Appended(res, k + 1, sn, bh, mp)}

\* to_visit.append(l) for every enqueued link
ExtendedAtFront(tv, app) == app \o tv
Extended(tv, app) == tv \o app

\* progress_state after a merge
MergedProgressBefore(sn, imgs) ==
    [pages_visited |-> Cardinality(sn), images_found |-> Cardinality(found_images)]
MergedProgress(sn, imgs) ==
    [pages_visited |-> Cardinality(sn), images_found |-> Cardinality(imgs)]

\* gather has every result: merge them and update the progress object
Merge ==
    /\ pc = "gather"
    /\ \A i \in DOMAIN task : task[i] \in {"done", "stopped"}
    /\ found_images' = MergeImages(found_images, results)
    /\ \E app \in Appended(results, 1, seen, base_host, max_pages) :
         to_visit' = Extended(to_visit, app)
    /\ progress' = MergedProgress(seen, found_images')
    /\ pc' = "loop"
    /\ UNCHANGED <<inputVars, stop_flag, seen, sem, batch, task, fetched, results,
                   ret, stop_seen, probeVars, tableVars>>

\* the Stop Scan action, at any moment of a running crawl
SetStop ==
    /\ pc \in {"loop", "gather"}
    /\ ~stop_flag
    /\ stop_flag' = TRUE
    /\ stop_seen' = Cardinality(seen)
    /\ UNCHANGED <<inputVars, pc, crawlVars, progress, ret, probeVars, tableVars>>

\* ------------------------------------------------------------- size probe
\* How a HEAD request can end: an exception, or a response with a status
\* and a content-length header (-1: absent or not all digits).
Resp(st, cl) == [kind |-> "response", status |-> st, cl |-> cl]
NoResp == [kind |-> "", status |-> 0, cl |-> -1]
ProbeOutcomes ==
    { [kind |-> "timeout", status |-> 0, cl |-> -1],
      Resp(200, 1024), Resp(200, 2560), Resp(200, -1), Resp(404, 1024) }

\* round(int(cl) / 1024.0, 2), in 1/100 KB
Round2KB(cl) == (cl * 100 + 512) \div 1024

get_head_size(o) ==
    IF o.kind = "response" /\ o.cl > 0 THEN Round2KB(o.cl) ELSE 0

\* the concurrency argument app.py gives to fetch_sizes
ProbeConcurrency == Min(50, concurrency * 2)

\* app.py after the crawl: keep the images, and probe them when there are any
\* (fetch_sizes_async up to its gather)
StartProbe ==
    /\ pc = "done"
    /\ impl = "app"
    /\ IF ret.images = {}
       THEN /\ pc' = "end"
            /\ UNCHANGED probeVars
       ELSE /\ pc' = "probe"
            /\ purls' \in Orders(ret.images)
            /\ psem' = ProbeConcurrency
            /\ ptask' = [i \in 1..Cardinality(ret.images) |-> "waiting"]
            /\ sizes' = [i \in 1..Cardinality(ret.images) |-> 0]
            /\ presp' = [i \in 1..Cardinality(ret.images) |-> NoResp]
    /\ seen' = {} /\ to_visit' = <<>> /\ found_images' = {}
    /\ sem' = 0 /\ batch' = <<>> /\ task' = <<>> /\ fetched' = <<>> /\ results' = <<>>
    /\ UNCHANGED <<inputVars, stop_flag, progress, ret, stop_seen, tableVars>>

\* worker(u): async with sem
ProbeStart(i) ==
    /\ pc = "probe"
    /\ i \in DOMAIN ptask
    /\ ptask[i] = "waiting"
    /\ SemFree(psem)
    /\ psem' = psem - 1
    /\ ptask' = [ptask EXCEPT ![i] = "probing"]
    /\ UNCHANGED <<inputVars, stop_flag, pc, crawlVars, progress, ret, stop_seen,
                   purls, sizes, presp, tableVars>>

\* the HEAD request resolves
ProbeDone(i) ==
    /\ pc = "probe"
    /\ i \in DOMAIN ptask
    /\ ptask[i] = "probing"
    /\ \E o \in ProbeOutcomes :
         /\ sizes' = [sizes EXCEPT ![i] = get_head_size(o)]
         /\ presp' = [presp EXCEPT ![i] = o]
    /\ psem' = psem + 1
    /\ ptask' = [ptask EXCEPT ![i] = "done"]
    /\ UNCHANGED <<inputVars, stop_flag, pc, crawlVars, progress, ret, stop_seen,
                   purls, tableVars>>

\* gather returns the list of sizes
ProbeReturn ==
    /\ pc = "probe"
    /\ \A i \in DOMAIN ptask : ptask[i] = "done"
    /\ pc' = "end"
    /\ UNCHANGED <<inputVars, stop_flag, crawlVars, progress, ret, stop_seen,
                   probeVars, tableVars>>

\* ---------------------------------------------------------------- reducer
\* u.split("/")[-1].split("?")[0]
Filename(u) ==
    CASE u.path = "/p.jpg"      -> "p.jpg"
      [] u.path = "/d/p.jpg"    -> "p.jpg"
      [] u.path = "/banner.PNG" -> "banner.PNG"
      [] u.path = "/logo.png"   -> "logo.png"
      [] OTHER                  -> ""

\* os.path.splitext(f)[0], cut into its alphanumeric runs, at most four
FilenameParts(f) ==
    CASE f = "p.jpg"      -> <<"p">>
      [] f = "banner.PNG" -> <<"banner">>
      [] f = "logo.png"   -> <<"logo">>
      [] OTHER            -> <<>>

\* os.path.splitext(f)[1].lstrip(".").lower()
FileType(f) ==
    CASE f = "p.jpg"      -> "jpg"
      [] f = "banner.PNG" -> "png"
      [] f = "logo.png"   -> "png"
      [] OTHER            -> ""

\* one row of the table
MakeRowRescaled(u, sz) ==
    [url |-> u, filename |-> Filename(u), size |-> Round2KB(sz),
     parts |-> FilenameParts(Filename(u)), filetype |-> FileType(Filename(u))]
MakeRow(u, sz) ==
    [url |-> u, filename |-> Filename(u), size |-> sz,
     parts |-> FilenameParts(Filename(u)), filetype |-> FileType(Filename(u))]

Perms(n) == {q \in [1..n -> 1..n] : \A i, j \in 1..n : q[i] = q[j] => i = j}

\* sort_values("Size (KB)", ascending=False): the sort is not stable, rows
\* of equal size come out in any order
SortAscending(rows) ==
    { [i \in DOMAIN rows |-> rows[q[i]]] :
        q \in {r \in Perms(Len(rows)) :
                 \A i, j \in DOMAIN rows : i < j => rows[r[i]].size <= rows[r[j]].size} }
SortDescending(rows) ==
    { [i \in DOMAIN rows |-> rows[q[i]]] :
        q \in {r \in Perms(Len(rows)) :
                 \A i, j \in DOMAIN rows : i < j => rows[r[i]].size >= rows[r[j]].size} }

\* drop_duplicates(subset="Filename", keep="first")
RECURSIVE DropDuplicates(_, _, _)
DropDuplicates(rows, i, acc) ==
    IF i > Len(rows) THEN acc
    ELSE IF \E j \in 1..(i - 1) : rows[j].filename = rows[i].filename
         THEN DropDuplicates(rows, i + 1, acc)
         ELSE DropDuplicates(rows, i + 1, Append(acc, rows[i]))

\* the size filter, applied when the button was pressed
PassesFilter(sz, f) ==
    IF f.max > 0 THEN sz >= f.min /\ sz <= f.max ELSE sz >= f.min

SizeFilter(rows, f) ==
    LET Keep(r) == PassesFilter(r.size, f)
    IN IF f.apply THEN SelectSeq(rows, Keep) ELSE rows

\* the tables the reducer may produce for a list of URLs and their sizes
Reducer(urls, szs, f) ==
    LET rows == [i \in DOMAIN urls |-> MakeRow(urls[i], szs[i])]
    IN { SizeFilter(DropDuplicates(sorted, 1, <<>>), f) : sorted \in SortDescending(rows) }

Filters ==
    { NoFilter, Filter(TRUE, 100, 0), Filter(TRUE, 0, 100), Filter(TRUE, 100, 250) }

\* app.py once the sizes are there: build, sort, deduplicate and filter the
\* table
Reduce ==
    /\ pc = "end"
    /\ purls # <<>>
    /\ \E f \in Filters :
         /\ filt' = f
         /\ table' \in Reducer(purls, sizes, f)
    /\ pc' = "shown"
    /\ UNCHANGED <<inputVars, stop_flag, crawlVars, progress, ret, stop_seen,
                   probeVars>>

Next ==
    \/ Start
    \/ ExitLoop
    \/ ExitStop
    \/ ExitEmptyBatch
    \/ Dispatch
    \/ \E i \in DOMAIN task : VisitStart(i)
    \/ \E i \in DOMAIN task : VisitDone(i)
    \/ Merge
    \/ SetStop
    \/ StartProbe
    \/ \E i \in DOMAIN ptask : ProbeStart(i)
    \/ \E i \in DOMAIN ptask : ProbeDone(i)
    \/ ProbeReturn
    \/ Reduce

Spec == Init /\ [][Next]_vars

\* ----------------------------------------------------------------- claims
Running == pc \in {"loop", "gather"}
InFlight == {i \in DOMAIN task : task[i] = "fetching"}
Probing == {i \in DOMAIN ptask : ptask[i] = "probing"}
OnBaseHost(u) == u.host = base_url.host

\* C1: at every moment of a crawl the visited set holds at most max_pages
\* URLs, and the pagesVisited value returned is at most max_pages.
C1_PageBudget ==
    /\ Cardinality(seen) <= max_pages
    /\ ret.pages <= max_pages

\* the budget, not the frontier, ended a crawl of several pages
C1_Witness ==
    /\ pc = "done"
    /\ max_pages >= 2
    /\ ret.pages = max_pages
    /\ to_visit # <<>>

\* C2: every URL on the frontier, in the visited set or in a batch has the
\* authority of the starting URL.
C2_SameHostOnly ==
    \A u \in Range(to_visit) \cup seen \cup Range(batch) : OnBaseHost(u)

\* a page with a link to another host was merged and the crawl goes on
C2_Witness ==
    /\ pc = "loop"
    /\ to_visit # <<>>
    /\ \E i \in DOMAIN results : \E l \in results[i].links : ~OnBaseHost(l)

\* C3 as stated: every URL in found_images has the authority of the
\* starting URL.
C3_ImagesOnBaseHost == \A u \in found_images : OnBaseHost(u)

\* C3 as amended: every visited URL is on the starting host, and an image
\* enters found_images only as part of the result of a visit of a batch
\* whose pages are all on the starting host; the image's own authority is
\* not restricted.
C3_ImagesFromBaseHostPages ==
    [][ /\ \A u \in seen' : OnBaseHost(u)
        /\ \A u \in found_images' \ found_images :
             /\ \E i \in DOMAIN results : u \in results[i].imgs
             /\ \A i \in DOMAIN batch : OnBaseHost(batch[i]) ]_vars

\* an image of another host was found
C3_Witness ==
    /\ Running
    /\ \E u \in found_images : ~OnBaseHost(u)

\* C4: once the stop flag is set no visit issues a request, and a crawl
\* stopped while running returns a page count that is at most max_pages and
\* at least the number of pages visited when the flag was set.
C4_NoFetchAfterStop ==
    [][ /\ stop_flag => \A i \in DOMAIN task' :
                          task'[i] = "fetching" => i \in DOMAIN task /\ task[i] = "fetching"
        /\ pc' = "done" /\ stop_seen' >= 0 =>
             /\ ret'.pages <= max_pages
             /\ ret'.pages >= stop_seen' ]_vars

\* the flag was set while a batch was in flight: one visit had issued its
\* request, another observed the flag and issued none
C4_Witness ==
    /\ pc = "done"
    /\ stop_seen >= 2
    /\ \E i, j \in DOMAIN task : task[i] = "stopped" /\ task[j] = "done" /\ fetched[j] # ""

\* C5: found_images and seen only grow during a crawl, and the images
\* returned are the images found, among them the images of every visit of
\* the last batch that completed.
C5_CancelKeepsResults ==
    [][ /\ Running /\ pc' \in {"loop", "gather", "done", "raised"} =>
             /\ found_images \subseteq found_images'
             /\ seen \subseteq seen'
        /\ pc' = "done" =>
             /\ ret'.images = found_images'
             /\ \A i \in DOMAIN results' : results'[i].imgs \subseteq ret'.images ]_vars

\* a crawl cancelled during a batch returns the images of the visit of
\* that batch that had been dispatched
C5_Witness ==
    /\ pc = "done"
    /\ stop_seen >= 0
    /\ \E i, j \in DOMAIN task :
         /\ task[i] = "stopped"
         /\ task[j] = "done" /\ results[j].imgs # {}
         /\ results[j].imgs \subseteq ret.images

FailedOutcomes == {"timeout", "image/png"}

\* C6: a visit whose request failed (timeout, non-text content type)
\* returns no image and no link and raises nothing, and the merge of its
\* batch still takes in every image and every eligible link of the other
\* results, after which the loop goes on.
C6_FailedFetchIsEmpty ==
    [][ /\ \A i \in DOMAIN task' :
             fetched'[i] \in FailedOutcomes => task'[i] = "done" /\ results'[i] = NoResult
        /\ pc = "gather" /\ pc' = "loop" =>
             \A i \in DOMAIN results :
                /\ results[i].imgs \subseteq found_images'
                /\ \A l \in results[i].links :
                     (l \notin seen /\ OnBaseHost(l) /\ Cardinality(seen) < max_pages)
                        => l \in Range(to_visit') ]_vars

\* a batch with a failed page and a page with images was merged, and a
\* further batch is about to be drawn
C6_Witness ==
    /\ pc = "loop"
    /\ LoopCond /\ ~stop_flag /\ Drawn.batch # <<>>
    /\ \E i, j \in DOMAIN task :
         /\ fetched[i] \in FailedOutcomes
         /\ fetched[j] = "text/html" /\ results[j].imgs # {}
         /\ results[j].imgs \subseteq found_images

\* C7: extraction inside a visit never raises, so no crawl ends by an
\* exception.
C7_NeverRaises == pc # "raised"

\* C8: a crawl that ends without cancellation has used its page budget or
\* has no unvisited same-host URL left on the frontier.
C8_CompletedMeansExhausted ==
    pc = "done" /\ ~stop_flag =>
        \/ Cardinality(seen) >= max_pages
        \/ ~\E u \in Range(to_visit) : u \notin seen /\ OnBaseHost(u)

\* two URLs that differ at most by fragment and query
SameIdentity(u, v) == u.host = v.host /\ u.path = v.path

\* C9: the visited set never holds two URLs that differ only by fragment
\* or query.
C9_CanonicalIdentity ==
    \A u, v \in seen : SameIdentity(u, v) => u = v

\* C10: at most concurrency page fetches are in flight at any moment of a
\* crawl, and at most the probe's concurrency argument size probes.
C10_BoundedInFlight ==
    /\ Cardinality(InFlight) <= concurrency
    /\ Cardinality(Probing) <= ProbeConcurrency

\* the probe's semaphore is exhausted while a worker still waits
C10_Witness ==
    /\ pc = "probe"
    /\ Cardinality(Probing) = ProbeConcurrency
    /\ \E i \in DOMAIN ptask : ptask[i] = "waiting"

\* a HEAD request that failed: an exception, a status outside 2xx, or no
\* usable content-length header
ProbeFailed(o) ==
    \/ o.kind # "response"
    \/ o.status < 200 \/ o.status > 299
    \/ o.cl < 0

\* C11: the value of every URL whose probe failed (timeout, connection
\* error, non-2xx status, missing or non-numeric content-length) is 0.0.
C11_FailedProbeIsZero ==
    \A i \in DOMAIN ptask :
        ptask[i] = "done" /\ ProbeFailed(presp[i]) => sizes[i] = 0

InputSizesOf(f) == {sizes[k] : k \in {j \in DOMAIN purls : Filename(purls[j]) = f}}
MaxOf(S) == CHOOSE m \in S : \A x \in S : x <= m

\* C12: the table has one row per filename, the row of a filename carries
\* the largest size probed for a URL with that filename, and (the size
\* filter aside) every filename of the input has its row.
C12_OneRowPerFilenameLargest ==
    pc = "shown" =>
        /\ \A i, j \in DOMAIN table : table[i].filename = table[j].filename => i = j
        /\ \A i \in DOMAIN table :
             /\ table[i].size = MaxOf(InputSizesOf(table[i].filename))
             /\ \E k \in DOMAIN purls : purls[k] = table[i].url /\ sizes[k] = table[i].size
        /\ \A k \in DOMAIN purls :
             (filt.apply => PassesFilter(MaxOf(InputSizesOf(Filename(purls[k]))), filt))
                => \E i \in DOMAIN table : table[i].filename = Filename(purls[k])

\* two URLs with one filename and different sizes were reduced to one row
C12_Witness ==
    /\ pc = "shown"
    /\ ~filt.apply
    /\ \E j, k \in DOMAIN purls :
         /\ Filename(purls[j]) = Filename(purls[k])
         /\ sizes[j] < sizes[k]
         /\ \E i \in DOMAIN table : table[i].url = purls[k]

\* C13: reducing the reducer's own table again, with the same size filter,
\* gives the same set of rows.
C13_ReducerIdempotent ==
    pc = "shown" =>
        \A again \in Reducer([i \in DOMAIN table |-> table[i].url],
                             [i \in DOMAIN table |-> table[i].size], filt) :
            Range(again) = Range(table)

\* a filter without maximum dropped a row, and another row was a duplicate
C13_Witness ==
    /\ pc = "shown"
    /\ filt.apply /\ filt.max = 0 /\ filt.min > 0
    /\ table # <<>>
    /\ Len(table) + 2 <= Len(purls)

\* C14: no URL that contains an excluded keyword (logo, icon, favicon) is
\* ever in found_images.
C14_NoExcludedImage == \A u \in found_images : ~is_excluded(u)

\* C15: between batches and at the return the progress object counts the
\* visited set and the found images, and the crawl returns those counts.
C15_ProgressMatches ==
    /\ pc \in {"loop", "done"} =>
         /\ progress.pages_visited = Cardinality(seen)
         /\ progress.images_found = Cardinality(found_images)
    /\ pc = "done" =>
         /\ ret.pages = progress.pages_visited
         /\ Cardinality(ret.images) = progress.images_found

\* a cancelled crawl returned after merging pages and images
C15_Witness ==
    /\ pc = "done"
    /\ stop_seen >= 0
    /\ ret.pages >= 2
    /\ Cardinality(ret.images) >= 1
    /\ \E i \in DOMAIN task : task[i] = "stopped"

\* the unvisited same-host URLs waiting on the frontier
EligibleInFrontier == {u \in Range(to_visit) : u \notin seen /\ OnBaseHost(u)}

\* the fetch slots of the next batch
Slots == Min(concurrency, max_pages - Cardinality(seen))

\* C16: a draw made while the frontier holds at least as many eligible URLs
\* as there are fetch slots dispatches a batch that fills every slot.
C16_SkippedTakesNoSlot ==
    [][ (/\ pc = "loop" /\ LoopCond /\ ~stop_flag
         /\ pc' \in {"gather", "done"}
         /\ Cardinality(EligibleInFrontier) >= Slots)
        => pc' = "gather" /\ Len(batch') = Slots ]_vars

\* C17: every URL of a dispatched batch is new to the visited set, occurs
\* once in the batch and is in the visited set when its fetch is dispatched;
\* the visited set never shrinks during a crawl, so no later batch holds it.
C17_NoUrlFetchedTwice ==
    [][ /\ pc \in {"loop", "gather"} /\ pc' \in {"loop", "gather", "done"}
           => seen \subseteq seen'
        /\ pc = "loop" /\ pc' = "gather"
           => /\ \A i, j \in DOMAIN batch' : batch'[i] = batch'[j] => i = j
              /\ Range(batch') \cap seen = {}
              /\ Range(batch') \subseteq seen'
        /\ pc = "gather" => batch' = batch ]_vars

\* a URL being fetched is still waiting on the frontier
C17_Witness ==
    /\ pc = "gather"
    /\ \E i \in DOMAIN batch : task[i] = "fetching" /\ batch[i] \in Range(to_visit)

\* the frontier lost its first k entries
PoppedFront(k) ==
    /\ k \in 0..Len(to_visit)
    /\ to_visit' = SubSeq(to_visit, k + 1, Len(to_visit))

\* the frontier kept its entries and grew, if at all, at the back
PushedBack ==
    /\ Len(to_visit') >= Len(to_visit)
    /\ SubSeq(to_visit', 1, Len(to_visit)) = to_visit

\* the batch is made, in their order, of entries among the first k
InOrderAmongFirst(b, k) ==
    \E f \in [DOMAIN b -> 1..k] :
        /\ \A i, j \in DOMAIN b : i < j => f[i] < f[j]
        /\ \A i \in DOMAIN b : to_visit[f[i]] = b[i]

\* C18: during a crawl the frontier changes only by losing entries at the
\* front or gaining entries at the back; a dispatched batch holds, in frontier
\* order, entries taken from the front, and every entry taken before or with
\* them is visited by then or is never fetched (another host).
C18_FifoDispatch ==
    [][ /\ pc \in {"loop", "gather"} /\ pc' \in {"loop", "gather", "done"}
           => (\E k \in 0..Len(to_visit) : PoppedFront(k)) \/ PushedBack
        /\ pc = "loop" /\ pc' = "gather"
           => \E k \in 1..Len(to_visit) :
                /\ PoppedFront(k)
                /\ InOrderAmongFirst(batch', k)
                /\ \A p \in 1..k : to_visit[p] \in seen' \/ ~OnBaseHost(to_visit[p]) ]_vars

\* a later batch of a one-at-a-time crawl, with URLs still waiting behind it
C18_Witness ==
    /\ pc = "gather"
    /\ concurrency = 1
    /\ Cardinality(seen) >= 3
    /\ Len(to_visit) >= 2
    /\ \E i \in DOMAIN task : task[i] = "fetching"

\* The event loop runs the crawl coroutine whenever it can continue, and
\* every dispatched fetch eventually starts and eventually resolves.
CrawlStep == ExitLoop \/ ExitStop \/ ExitEmptyBatch \/ Dispatch \/ Merge
LiveSpec ==
    /\ Spec
    /\ WF_vars(CrawlStep)
    /\ WF_vars(\E i \in DOMAIN task : VisitStart(i))
    /\ WF_vars(\E i \in DOMAIN task : VisitDone(i))

\* C19: every running crawl eventually returns, completed or cancelled.
C19_CrawlReturns == Running ~> (pc = "done")

\* every running crawl eventually returns or ends by an exception
CrawlReturnsOrRaises == Running ~> (pc \in {"done", "raised"})

\* C20: in app.py the flag is clear from Start until a stop is requested in
\* the new run, whatever the run before left; a crawl that returns with no
\* stop requested during it has dispatched its first batch.
C20_StartClearsStop ==
    impl = "app" /\ pc # "idle" /\ stop_seen = -1 =>
        /\ ~stop_flag
        /\ pc = "done" => ret.pages >= 1

\* a crawl started with the flag left set by the run before has returned
\* pages and images
C20_Witness ==
    /\ impl = "app" /\ prior_stop
    /\ stop_seen = -1
    /\ pc = "done"
    /\ ret.pages >= 2
    /\ ret.images # {}

====
